---------------------------- MODULE Spec2Model ----------------------------
(***************************************************************************)
(* State-machine model of the Dyson V2 deposit / premium notebook          *)
(* (src/DysonV2.ipynb, second half: the cells from line 895 on, which are  *)
(* the definitions in force when the reference run is made).               *)
(*                                                                         *)
(* Numbers.  Python floats are modelled as exact rationals <<n, d>> in     *)
(* lowest terms (d > 0): +, -, * and / are exact, comparisons are exact.   *)
(* The two library functions that leave the rationals, math.sqrt and       *)
(* math.log2, are evaluated to a finite precision (they round down to a    *)
(* grid), as a floating-point library rounds to its own grid.              *)
(***************************************************************************)
EXTENDS Integers, Sequences, FiniteSets, TLC

VARIABLES
    x,                  \* pool reserve of token0 (global x)
    y,                  \* pool reserve of token1 (global y)
    accumulatd_sqrt_Q,  \* cumulative usage of the cycle (global, source spelling)
    w,                  \* usage-scale denominator (global w)
    basis,              \* annualised volatility (global basis)
    current_price,      \* price used by process_deposit's rebalance (global)
    mock_time,          \* TimeManager._mock_time, None when the clock is real
    deposits,           \* number of deposits applied so far (bounds the model)
    last                \* record of the last call: arguments, outcome, results

vars == <<x, y, accumulatd_sqrt_Q, w, basis, current_price, mock_time,
          deposits, last>>

-----------------------------------------------------------------------------
(* Rational arithmetic: the arithmetic of Python numbers *)

Abs(i) == IF i < 0 THEN -i ELSE i

RECURSIVE GCD(_, _)
GCD(a, b) == IF b = 0 THEN a ELSE GCD(b, a % b)

\* n/d in lowest terms with a positive denominator (d # 0)
Norm(n, d) ==
    LET g == GCD(Abs(n), Abs(d))
        s == IF d < 0 THEN -1 ELSE 1
    IN  <<s * (n \div g), s * (d \div g)>>

R(i) == <<i, 1>>

Zero == R(0)
One == R(1)
Half == <<1, 2>>

RNeg(a) == <<-a[1], a[2]>>

RAdd(a, b) ==
    LET g == GCD(a[2], b[2])
        l == (a[2] \div g) * b[2]
    IN  Norm(a[1] * (l \div a[2]) + b[1] * (l \div b[2]), l)

RSub(a, b) == RAdd(a, RNeg(b))

RMul(a, b) ==
    LET g1 == GCD(Abs(a[1]), b[2])
        g2 == GCD(Abs(b[1]), a[2])
    IN  Norm((a[1] \div g1) * (b[1] \div g2), (a[2] \div g2) * (b[2] \div g1))

\* a / b for b # 0 (the callers raise ZeroDivisionError before using it)
RDiv(a, b) == RMul(a, Norm(b[2], b[1]))

RLt(a, b) == a[1] * b[2] < b[1] * a[2]
RLe(a, b) == a[1] * b[2] <= b[1] * a[2]
RGt(a, b) == RLt(b, a)
RGe(a, b) == RLe(b, a)

\* Python's max(a, b) and min(a, b): the first argument wins a tie
RMax(a, b) == IF RGt(b, a) THEN b ELSE a
RMin(a, b) == IF RLt(b, a) THEN b ELSE a

\* Python's a // b on numbers, for b > 0: the floor of the quotient
RFloorDiv(a, b) == (a[1] * b[2]) \div (a[2] * b[1])

-----------------------------------------------------------------------------
(* math.sqrt and math.log2, to finite precision *)

\* floor of the square root of the natural number m, by bisection
RECURSIVE ISqrtIn(_, _, _)
ISqrtIn(lo, hi, m) ==
    IF lo >= hi THEN lo
    ELSE LET mid == (lo + hi + 1) \div 2
         IN  IF mid * mid <= m THEN ISqrtIn(mid, hi, m)
             ELSE ISqrtIn(lo, mid - 1, m)

ISqrt(m) == ISqrtIn(0, IF m < 46340 THEN m ELSE 46340, m)

\* math.sqrt(r) for r >= 0: the greatest multiple of 1/SqrtGrid whose square
\* is at most r (exact whenever the root lies on the grid)
SqrtGrid == 10

Sqrt(r) == Norm(ISqrt((r[1] * SqrtGrid * SqrtGrid) \div r[2]), SqrtGrid)

\* Fixed-point evaluation of log2: the characteristic by halving/doubling,
\* the mantissa bits by repeated squaring.
LogFix == 4096
LogBits == 4

RECURSIVE Log2Char(_, _)
Log2Char(n, d) ==
    IF n >= 2 * d THEN 1 + Log2Char(n, 2 * d)
    ELSE IF n < d THEN Log2Char(2 * n, d) - 1
    ELSE 0

RECURSIVE Pow2(_)
Pow2(k) == IF k = 0 THEN 1 ELSE 2 * Pow2(k - 1)

RECURSIVE Log2Frac(_, _)
Log2Frac(v, bits) ==
    IF bits = 0 THEN 0
    ELSE LET sq == (v * v) \div LogFix
         IN  IF sq >= 2 * LogFix
             THEN Pow2(bits - 1) + Log2Frac(sq \div 2, bits - 1)
             ELSE Log2Frac(sq, bits - 1)

\* math.log2(r) for r > 0, rounded down to a multiple of 2^-LogBits
Log2(r) ==
    LET c == Log2Char(r[1], r[2])
        m == IF c >= 0 THEN Norm(r[1], r[2] * Pow2(c))
             ELSE Norm(r[1] * Pow2(-c), r[2])
        v == (m[1] * LogFix) \div m[2]
    IN  Norm(c * Pow2(LogBits) + Log2Frac(v, LogBits), Pow2(LogBits))

\* math.log(2), to one decimal place
Ln2 == <<7, 10>>


-----------------------------------------------------------------------------
(* Outcomes of a call *)

None == <<0, 0>>          \* Python's None (no rational has denominator 0)

Ok(v) == [err |-> "none", val |-> v]
Raise(e) == [err |-> e, val |-> Zero]

-----------------------------------------------------------------------------
(* TimeManager *)

\* getTimestamp: the mocked instant when one is set, else the wall clock's
\* reading `wall` (datetime.now()).  The datetime round trip keeps
\* microseconds; every instant of the model is a multiple of half a second.
getTimestamp(wall) == IF mock_time # None THEN mock_time ELSE wall

-----------------------------------------------------------------------------
(* calc_discount, calc_premium *)

\* calc_discount with the argument checks of the first notebook version
\* (lines 156-161) kept in front of the formula
calc_discount_first_version(a, b) ==
    IF RLe(b, a) THEN Raise("ValueError")
    ELSE IF RLt(a, Zero) \/ RLt(b, Zero) THEN Raise("ValueError")
    ELSE Ok(RDiv(RMul(RSub(Log2(RAdd(b, One)), Log2(RAdd(a, One))), Ln2),
                 RSub(b, a)))

calc_discount(a, b) ==
    IF RLe(RAdd(b, One), Zero) THEN Raise("ValueError")
    ELSE IF RLe(RAdd(a, One), Zero) THEN Raise("ValueError")
    ELSE LET numerator == RMul(RSub(Log2(RAdd(b, One)), Log2(RAdd(a, One))), Ln2)
             denom == RSub(b, a)
         IN  IF denom = Zero THEN Raise("ZeroDivisionError")
             ELSE Ok(RDiv(numerator, denom))

SecondsInYear == 365 * 86400

\* calc_premium with the usage scale taken from the reserves of the moment
\* (math.sqrt(x * y), as line 969 computes k) instead of the global w
calc_premium_current_reserves(q_old, q_new, bas, duration_in_sec) ==
    IF Sqrt(RMul(x, y)) = Zero THEN Raise("ZeroDivisionError")
    ELSE LET discount == calc_discount(RDiv(q_old, Sqrt(RMul(x, y))),
                                       RDiv(q_new, Sqrt(RMul(x, y))))
             t_yr == RDiv(duration_in_sec, R(SecondsInYear))
         IN  IF discount.err # "none" THEN discount
             ELSE IF RLt(t_yr, Zero) THEN Raise("ValueError")
             ELSE Ok(RMul(RMul(RMul(<<2, 5>>, bas), Sqrt(t_yr)), discount.val))

calc_premium(q_old, q_new, bas, duration_in_sec) ==
    IF w = Zero THEN Raise("ZeroDivisionError")
    ELSE LET discount == calc_discount(RDiv(q_old, w), RDiv(q_new, w))
             t_yr == RDiv(duration_in_sec, R(SecondsInYear))
         IN  IF discount.err # "none" THEN discount
             ELSE IF RLt(t_yr, Zero) THEN Raise("ValueError")
             ELSE LET basic_rate == RMul(RMul(<<2, 5>>, bas), Sqrt(t_yr))
                  IN  Ok(RMul(basic_rate, discount.val))

-----------------------------------------------------------------------------
(* compute_due_time_and_duration *)

SecondsInDay == 86400

compute_due_time_and_duration(lock_days, wall) ==
    LET current_timestamp == getTimestamp(wall)
        due == RFloorDiv(RAdd(current_timestamp, R(SecondsInDay - 1)),
                         R(SecondsInDay)) + lock_days
        duration_in_sec == RSub(R(due * SecondsInDay), current_timestamp)
    IN  [due |-> due, duration |-> duration_in_sec]

\* the first notebook's compute_due_time_and_duration (lines 237-257): the
\* lock starts at the next midnight unless the instant is a midnight
compute_due_time_and_duration_first_version(lock_days, wall) ==
    LET current_timestamp == getTimestamp(wall)
        seconds_in_day == SecondsInDay
        today_midnight == R(RFloorDiv(current_timestamp, R(seconds_in_day))
                            * seconds_in_day)
        lock_start == IF current_timestamp = today_midnight
                      THEN today_midnight
                      ELSE RAdd(today_midnight, R(seconds_in_day))
        unlock_time == RAdd(lock_start, R(lock_days * seconds_in_day))
        due_in_utc_day == RFloorDiv(unlock_time, R(seconds_in_day))
        lock_duration_in_sec == RSub(unlock_time, current_timestamp)
    IN  [due |-> due_in_utc_day, duration |-> lock_duration_in_sec]

-----------------------------------------------------------------------------
(* dyson_deposit_formula *)

\* DepositQ with the operands of the delta swapped, no floor, and the sign of
\* the delta kept through the squaring
DepositQ_signed(inputAmt0, inputAmt1) ==
    LET xy == RMul(x, y)
        xMyN == RMul(RAdd(x, inputAmt0), RAdd(y, inputAmt1))
    IN  IF RLt(xy, Zero) \/ RLt(xMyN, Zero) THEN Raise("ValueError")
        ELSE LET diff == RSub(Sqrt(xy), Sqrt(xMyN))
             IN  Ok(RMul(R(4), RMul(diff, RMax(diff, RNeg(diff)))))

\* lines 1171-1174: Q = 4 * max(sqrt((x+in0)(y+in1)) - sqrt(xy), 0)^2
DepositQ(inputAmt0, inputAmt1) ==
    LET xy == RMul(x, y)
        xMyN == RMul(RAdd(x, inputAmt0), RAdd(y, inputAmt1))
    IN  IF RLt(xy, Zero) \/ RLt(xMyN, Zero) THEN Raise("ValueError")
        ELSE LET diff == RMax(RSub(Sqrt(xMyN), Sqrt(xy)), Zero)
             IN  Ok(RMul(R(4), RMul(diff, diff)))

\* NoteSplit with the ratio term of lines 1180 and 1187 left out of the note
NoteSplit_without_ratio(inputAmt0, inputAmt1, Q) ==
    IF RGt(RMul(inputAmt0, y), RMul(inputAmt1, x))
    THEN <<inputAmt0, IF inputAmt0 = Zero THEN Zero ELSE RDiv(Q, inputAmt0)>>
    ELSE <<IF inputAmt1 = Zero THEN Zero ELSE RDiv(Q, inputAmt1), inputAmt1>>

\* lines 1178-1191: the note split
NoteSplit(inputAmt0, inputAmt1, Q) ==
    IF RGt(RMul(inputAmt0, y), RMul(inputAmt1, x))
    THEN LET ratio == IF RGt(y, Zero) THEN RDiv(RMul(inputAmt1, x), y) ELSE Zero
             noteAmt0 == RAdd(inputAmt0, ratio)
         IN  <<noteAmt0, IF noteAmt0 = Zero THEN Zero ELSE RDiv(Q, noteAmt0)>>
    ELSE LET ratio == IF RGt(x, Zero) THEN RDiv(RMul(inputAmt0, y), x) ELSE Zero
             noteAmt1 == RAdd(inputAmt1, ratio)
         IN  <<IF noteAmt1 = Zero THEN Zero ELSE RDiv(Q, noteAmt1), noteAmt1>>

\* DepositUpdate with the usage total set to this deposit's own sqrt_Q
\* (q_new - accumulatd_sqrt_Q) instead of q_new
DepositUpdate_own_sqrt_Q(inputAmt0, inputAmt1, q_new) ==
    <<RAdd(x, inputAmt0), RAdd(y, inputAmt1), RSub(q_new, accumulatd_sqrt_Q)>>

\* DepositUpdate with the assignment of line 1209 (y += inputAmt1) left out
DepositUpdate_without_y(inputAmt0, inputAmt1, q_new) ==
    <<RAdd(x, inputAmt0), y, q_new>>

\* lines 1205-1209: the new global state <<x, y, accumulatd_sqrt_Q>>
DepositUpdate(inputAmt0, inputAmt1, q_new) ==
    <<RAdd(x, inputAmt0), RAdd(y, inputAmt1), q_new>>

\* NextQ with the sign of line 1197 flipped (q_old - sqrt_Q)
NextQ_minus(sqrt_Q) == RSub(accumulatd_sqrt_Q, sqrt_Q)

\* lines 1196-1197: q_new from the running total and this deposit's sqrt_Q
NextQ(sqrt_Q) == RAdd(accumulatd_sqrt_Q, sqrt_Q)

\* PoolOnRaise had the reserves been updated (lines 1208-1209) before the
\* premium is computed (line 1203)
PoolOnRaise_reserves_first(inputAmt0, inputAmt1) ==
    <<RAdd(x, inputAmt0), RAdd(y, inputAmt1), accumulatd_sqrt_Q>>

\* The globals when an exception leaves the function: every statement that can
\* raise (lines 1171-1203) stands before the first assignment to a global
\* (line 1206), so they are as they were at the call.
PoolOnRaise(inputAmt0, inputAmt1) == <<x, y, accumulatd_sqrt_Q>>

\* The whole function.  err is the exception raised ("none" when it returns);
\* pool is the value of <<x, y, accumulatd_sqrt_Q>> when the call ends.
dyson_deposit_formula(inputAmt0, inputAmt1, lockDays, wall) ==
    LET failed(e) == [err |-> e, pool |-> PoolOnRaise(inputAmt0, inputAmt1),
                      noteAmt0 |-> Zero, noteAmt1 |-> Zero, Q |-> Zero,
                      sqrt_Q |-> Zero, q_old |-> Zero, q_new |-> Zero,
                      premium |-> Zero, due |-> 0, duration |-> Zero]
        dq == DepositQ(inputAmt0, inputAmt1)
    IN  IF dq.err # "none" THEN failed(dq.err)
        ELSE
        LET Q == dq.val
            note == NoteSplit(inputAmt0, inputAmt1, Q)
            sqrt_Q == Sqrt(Q)
            q_old == accumulatd_sqrt_Q
            q_new == NextQ(sqrt_Q)
            dd == compute_due_time_and_duration(lockDays, wall)
            premium == calc_premium(q_old, q_new, basis, dd.duration)
        IN  IF premium.err # "none" THEN failed(premium.err)
            ELSE [err |-> "none",
                  pool |-> DepositUpdate(inputAmt0, inputAmt1, q_new),
                  noteAmt0 |-> note[1], noteAmt1 |-> note[2], Q |-> Q,
                  sqrt_Q |-> sqrt_Q, q_old |-> q_old, q_new |-> q_new,
                  premium |-> premium.val, due |-> dd.due,
                  duration |-> dd.duration]

-----------------------------------------------------------------------------
(* compute_withdraw_ratio, rebalance *)

\* compute_withdraw_ratio without the clamp of line 1247 (return a)
compute_withdraw_ratio_unclamped(px, py, m, n) ==
    IF m = Zero \/ n = Zero THEN Raise("ValueError")
    ELSE Ok(RSub(RAdd(Half, RDiv(px, RMul(R(2), m))),
                 RDiv(py, RMul(R(2), n))))

\* compute_withdraw_ratio with `and` for the `or` of line 1243: a single zero
\* passes the guard and the division of line 1246 raises instead
compute_withdraw_ratio_and(px, py, m, n) ==
    IF m = Zero /\ n = Zero THEN Raise("ValueError")
    ELSE IF m = Zero \/ n = Zero THEN Raise("ZeroDivisionError")
    ELSE LET a == RSub(RAdd(Half, RDiv(px, RMul(R(2), m))),
                       RDiv(py, RMul(R(2), n)))
         IN  Ok(RMax(Zero, RMin(a, One)))

compute_withdraw_ratio(px, py, m, n) ==
    IF m = Zero \/ n = Zero THEN Raise("ValueError")
    ELSE LET a == RSub(RAdd(Half, RDiv(px, RMul(R(2), m))),
                       RDiv(py, RMul(R(2), n)))
         IN  Ok(RMax(Zero, RMin(a, One)))

\* rebalance with the division by price of lines 1283 and 1289 left out
rebalance_without_price(eth_balance, usdc_balance, price) ==
    LET eth_value == RMul(eth_balance, price)
        target_val == RDiv(RAdd(eth_value, usdc_balance), R(2))
    IN  IF RGt(eth_value, target_val)
        THEN [err |-> "none",
              val |-> <<RSub(eth_balance, RSub(eth_value, target_val)),
                        RAdd(usdc_balance, RSub(eth_value, target_val))>>]
        ELSE IF RGt(usdc_balance, target_val)
        THEN [err |-> "none",
              val |-> <<RAdd(eth_balance, RSub(usdc_balance, target_val)),
                        RSub(usdc_balance, RSub(usdc_balance, target_val))>>]
        ELSE [err |-> "none", val |-> <<eth_balance, usdc_balance>>]

\* rebalance with the pair of line 1292 returned in the wrong order
rebalance_swapped_return(eth_balance, usdc_balance, price) ==
    LET eth_value == RMul(eth_balance, price)
        target_val == RDiv(RAdd(eth_value, usdc_balance), R(2))
    IN  IF RGt(eth_value, target_val)
        THEN IF price = Zero THEN [err |-> "ZeroDivisionError", val |-> <<Zero, Zero>>]
             ELSE [err |-> "none",
                   val |-> <<RSub(eth_balance, RDiv(RSub(eth_value, target_val), price)),
                             RAdd(usdc_balance, RSub(eth_value, target_val))>>]
        ELSE IF RGt(usdc_balance, target_val)
        THEN IF price = Zero THEN [err |-> "ZeroDivisionError", val |-> <<Zero, Zero>>]
             ELSE [err |-> "none",
                   val |-> <<RAdd(eth_balance, RDiv(RSub(usdc_balance, target_val), price)),
                             RSub(usdc_balance, RSub(usdc_balance, target_val))>>]
        ELSE [err |-> "none", val |-> <<usdc_balance, eth_balance>>]

\* val is the returned pair <<eth_balance, usdc_balance>>
rebalance(eth_balance, usdc_balance, price) ==
    LET eth_value == RMul(eth_balance, price)
        total_value == RAdd(eth_value, usdc_balance)
        target_val == RDiv(total_value, R(2))
    IN  IF RGt(eth_value, target_val)
        THEN LET excess_val == RSub(eth_value, target_val)
             IN  IF price = Zero THEN [err |-> "ZeroDivisionError", val |-> <<Zero, Zero>>]
                 ELSE [err |-> "none",
                       val |-> <<RSub(eth_balance, RDiv(excess_val, price)),
                                 RAdd(usdc_balance, excess_val)>>]
        ELSE IF RGt(usdc_balance, target_val)
        THEN LET excess_val == RSub(usdc_balance, target_val)
             IN  IF price = Zero THEN [err |-> "ZeroDivisionError", val |-> <<Zero, Zero>>]
                 ELSE [err |-> "none",
                       val |-> <<RAdd(eth_balance, RDiv(excess_val, price)),
                                 RSub(usdc_balance, excess_val)>>]
        ELSE [err |-> "none", val |-> <<eth_balance, usdc_balance>>]

-----------------------------------------------------------------------------
(* process_deposit *)

\* The result of process_deposit.  err is the exception raised ("none" when
\* it returns); pool is the value of <<x, y, accumulatd_sqrt_Q>> when the call
\* ends, also when it ends by raising; dep is what dyson_deposit_formula gave.
Processed(d, err, pool, m, n, a, withdraw0, withdraw1) ==
    [err |-> err, pool |-> pool, dep |-> d, m |-> m, n |-> n, a |-> a,
     withdraw0 |-> withdraw0, withdraw1 |-> withdraw1]

\* process_withdraw with the sign of line 1367 slipped (a - 1 for 1 - a)
process_withdraw_a_minus_1(d, m, n, pool, wr) ==
    IF wr.err # "none" THEN Processed(d, wr.err, pool, m, n, Zero, Zero, Zero)
    ELSE Processed(d, "none", pool, m, n, wr.val,
                   RMul(m, wr.val), RMul(n, RSub(wr.val, One)))

\* lines 1364-1367: the withdraw ratio wr and the two withdrawals
process_withdraw(d, m, n, pool, wr) ==
    IF wr.err # "none" THEN Processed(d, wr.err, pool, m, n, Zero, Zero, Zero)
    ELSE Processed(d, "none", pool, m, n, wr.val,
                   RMul(m, wr.val), RMul(n, RSub(One, wr.val)))

\* process_rebalance with the assignments of lines 1361-1362 left out: the
\* ratio is computed on the rebalanced balances, the pool keeps its own
process_rebalance_unassigned(d, m, n, rb) ==
    IF rb.err # "none" THEN Processed(d, rb.err, d.pool, Zero, Zero, Zero, Zero, Zero)
    ELSE process_withdraw(d, m, n, d.pool,
                          compute_withdraw_ratio(rb.val[1], rb.val[2], m, n))

\* lines 1360-1364: x and y take the rebalanced balances rb, then the ratio
process_rebalance(d, m, n, rb) ==
    IF rb.err # "none" THEN Processed(d, rb.err, d.pool, Zero, Zero, Zero, Zero, Zero)
    ELSE process_withdraw(d, m, n, <<rb.val[1], rb.val[2], d.pool[3]>>,
                          compute_withdraw_ratio(rb.val[1], rb.val[2], m, n))

\* lines 1357-1360: the notes with premium, then the rebalance of the pool
process_notes(d) ==
    IF d.err # "none" THEN Processed(d, d.err, d.pool, Zero, Zero, Zero, Zero, Zero)
    ELSE process_rebalance(d, RMul(d.noteAmt0, RAdd(One, d.premium)),
                           RMul(d.noteAmt1, RAdd(One, d.premium)),
                           rebalance(d.pool[1], d.pool[2], current_price))

process_deposit(deposit_time_days, inputAmt0, inputAmt1, wall) ==
    process_notes(dyson_deposit_formula(inputAmt0, inputAmt1,
                                        deposit_time_days, wall))

-----------------------------------------------------------------------------
(* The state machine *)

MaxDeposits == 2      \* deposit calls made in one behaviour

\* initial parameters (lines 956-975), drawn from small sets
InitReserves == {R(0), R(2)}
Prices == {R(1), R(2)}
SellTargets == {R(0), R(1)}

\* instants the clock is set to or reads: 2025-04-01T16:00:00Z (lines 939,
\* 1138) and half a second past a midnight
Instants == {R(1743523200), <<172801, 2>>}

InputAmts0 == {R(-3), R(0), R(2)}
InputAmts1 == {R(0), R(1), R(2)}
LockDays == {0, 30}

\* the record of a call, before its fields are filled in
Blank ==
    [op |-> "none", err |-> "none",
     in0 |-> Zero, in1 |-> Zero, lockDays |-> 0, now |-> Zero,
     preX |-> Zero, preY |-> Zero, preQ |-> Zero,
     noteAmt0 |-> Zero, noteAmt1 |-> Zero, Q |-> Zero, sqrt_Q |-> Zero,
     q_old |-> Zero, q_new |-> Zero, premium |-> Zero,
     due |-> 0, duration |-> Zero,
     m |-> Zero, n |-> Zero, a |-> Zero,
     withdraw0 |-> Zero, withdraw1 |-> Zero,
     argX |-> Zero, argY |-> Zero, discount |-> Zero,
     price |-> Zero, bas |-> Zero, newEth |-> Zero, newUsdc |-> Zero]

Called(op, inputAmt0, inputAmt1, lockDays, wall, d) ==
    [Blank EXCEPT !.op = op, !.err = d.err,
                  !.in0 = inputAmt0, !.in1 = inputAmt1, !.lockDays = lockDays,
                  !.now = getTimestamp(wall),
                  !.preX = x, !.preY = y, !.preQ = accumulatd_sqrt_Q,
                  !.noteAmt0 = d.noteAmt0, !.noteAmt1 = d.noteAmt1,
                  !.Q = d.Q, !.sqrt_Q = d.sqrt_Q,
                  !.q_old = d.q_old, !.q_new = d.q_new,
                  !.premium = d.premium, !.due = d.due,
                  !.duration = d.duration]

\* the readings datetime.now() can give when no instant is mocked
WallReadings == IF mock_time = None THEN Instants ELSE {mock_time}

Init ==
    /\ x \in InitReserves
    /\ current_price \in Prices
    /\ y = RMul(x, current_price)
    /\ \E daily_sell_target \in SellTargets :
           w = RMul(daily_sell_target, Sqrt(RMul(x, y)))
    /\ accumulatd_sqrt_Q = Zero
    /\ basis = Half
    /\ mock_time = R(1743523200)
    /\ deposits = 0
    /\ last = Blank

SetCurrentTime(t) ==
    /\ mock_time' = t
    /\ last' = [Blank EXCEPT !.op = "setCurrentTime", !.now = t]
    /\ UNCHANGED <<x, y, accumulatd_sqrt_Q, w, basis, current_price, deposits>>

ResetMock ==
    /\ mock_time' = None
    /\ last' = [Blank EXCEPT !.op = "resetMock"]
    /\ UNCHANGED <<x, y, accumulatd_sqrt_Q, w, basis, current_price, deposits>>

Deposit(inputAmt0, inputAmt1, lockDays, wall) ==
    /\ deposits < MaxDeposits
    /\ \E d \in {dyson_deposit_formula(inputAmt0, inputAmt1, lockDays, wall)} :
           /\ x' = d.pool[1]
           /\ y' = d.pool[2]
           /\ accumulatd_sqrt_Q' = d.pool[3]
           /\ last' = Called("deposit", inputAmt0, inputAmt1, lockDays, wall, d)
    /\ deposits' = deposits + 1
    /\ UNCHANGED <<w, basis, current_price, mock_time>>

ProcessDeposit(deposit_time_days, inputAmt0, inputAmt1, wall) ==
    /\ deposits < MaxDeposits
    /\ \E p \in {process_deposit(deposit_time_days, inputAmt0, inputAmt1, wall)} :
           /\ x' = p.pool[1]
           /\ y' = p.pool[2]
           /\ accumulatd_sqrt_Q' = p.pool[3]
           /\ last' = [Called("process_deposit", inputAmt0, inputAmt1,
                              deposit_time_days, wall, p.dep)
                       EXCEPT !.err = p.err, !.m = p.m, !.n = p.n, !.a = p.a,
                              !.withdraw0 = p.withdraw0,
                              !.withdraw1 = p.withdraw1]
    /\ deposits' = deposits + 1
    /\ UNCHANGED <<w, basis, current_price, mock_time>>

\* line 1624: the caller starts a new usage cycle
NewCycle ==
    /\ accumulatd_sqrt_Q' = Zero
    /\ last' = [Blank EXCEPT !.op = "new_cycle", !.preQ = accumulatd_sqrt_Q]
    /\ UNCHANGED <<x, y, w, basis, current_price, mock_time, deposits>>

Next ==
    \/ \E t \in Instants : SetCurrentTime(t)
    \/ \E i0 \in InputAmts0, i1 \in InputAmts1, ld \in LockDays, wall \in WallReadings :
           Deposit(i0, i1, ld, wall)
    \/ \E i0 \in InputAmts0, i1 \in InputAmts1, ld \in LockDays, wall \in WallReadings :
           ProcessDeposit(ld, i0, i1, wall)
    \/ NewCycle

Spec == Init /\ [][Next]_vars

-----------------------------------------------------------------------------
(* The functions called on their own, as the notebook's test cells call them *)

\* instants for the maturity calls: the two of the test cell (lines 1138,
\* 1142), whole seconds around a midnight, and instants with half seconds
MaturityInstants ==
    {R(1743523200), R(1743465600),
     R(0), R(1), R(86399), R(86400), R(86401), R(172800),
     <<1, 2>>, <<172799, 2>>, <<172801, 2>>, <<172803, 2>>}

MaturityLockDays == {-1, 0, 1, 2, 7, 30}

ComputeMaturity(lock_days, wall) ==
    /\ \E dd \in {compute_due_time_and_duration(lock_days, wall)} :
           last' = [Blank EXCEPT !.op = "compute_due_time_and_duration",
                                 !.lockDays = lock_days,
                                 !.now = getTimestamp(wall),
                                 !.due = dd.due, !.duration = dd.duration]
    /\ UNCHANGED <<x, y, accumulatd_sqrt_Q, w, basis, current_price,
                   mock_time, deposits>>

NextMaturity ==
    \/ \E t \in MaturityInstants : SetCurrentTime(t)
    \/ ResetMock
    \/ \E ld \in MaturityLockDays, wall \in WallReadings : ComputeMaturity(ld, wall)

SpecMaturity == Init /\ [][NextMaturity]_vars

\* arguments for compute_withdraw_ratio: reserves and note amounts, zero,
\* negative, tiny and large
WithdrawReserves == {R(0), R(100), R(-5)}
WithdrawNotes == {R(0), R(1), R(-1), <<1, 1000>>, R(1000)}

WithdrawRatio(px, py, m, n) ==
    /\ \E r \in {compute_withdraw_ratio(px, py, m, n)} :
           last' = [Blank EXCEPT !.op = "compute_withdraw_ratio",
                                 !.err = r.err, !.argX = px, !.argY = py,
                                 !.m = m, !.n = n, !.a = r.val]
    /\ UNCHANGED <<x, y, accumulatd_sqrt_Q, w, basis, current_price,
                   mock_time, deposits>>

NextWithdraw ==
    \E px \in WithdrawReserves, py \in WithdrawReserves,
       m \in WithdrawNotes, n \in WithdrawNotes : WithdrawRatio(px, py, m, n)

SpecWithdraw == Init /\ [][NextWithdraw]_vars

\* arguments for calc_discount
DiscountArgs ==
    {R(0), <<1, 2>>, R(1), <<3, 2>>, R(2), R(3), R(7), <<-1, 2>>, R(-1), R(-2)}

CalcDiscount(a, b) ==
    /\ \E r \in {calc_discount(a, b)} :
           last' = [Blank EXCEPT !.op = "calc_discount", !.err = r.err,
                                 !.argX = a, !.argY = b, !.discount = r.val]
    /\ UNCHANGED <<x, y, accumulatd_sqrt_Q, w, basis, current_price,
                   mock_time, deposits>>

NextDiscount == \E a \in DiscountArgs, b \in DiscountArgs : CalcDiscount(a, b)

SpecDiscount == Init /\ [][NextDiscount]_vars

\* Withdraw with the redemption paid out of the reserves (x - withdraw0,
\* y - withdraw1, as the arguments of line 1687 are formed)
Withdraw_paying_out(px, py, m, n) ==
    /\ \E r \in {process_withdraw(Blank, m, n, <<x, y, accumulatd_sqrt_Q>>,
                                   compute_withdraw_ratio(px, py, m, n))} :
           /\ x' = RSub(x, r.withdraw0)
           /\ y' = RSub(y, r.withdraw1)
           /\ accumulatd_sqrt_Q' = r.pool[3]
           /\ last' = [Blank EXCEPT !.op = "withdraw", !.err = r.err,
                                    !.argX = px, !.argY = py,
                                    !.preX = x, !.preY = y,
                                    !.preQ = accumulatd_sqrt_Q,
                                    !.m = r.m, !.n = r.n, !.a = r.a,
                                    !.withdraw0 = r.withdraw0,
                                    !.withdraw1 = r.withdraw1]
    /\ UNCHANGED <<w, basis, current_price, mock_time, deposits>>

\* lines 1364-1367 on their own (as the cells at 1687-1690 and 1723-1728 run
\* them): the withdraw ratio of a note (m, n) and its two redemption amounts
RedeemNotes == {R(1), R(2), <<1, 1000>>, R(1000)}

Withdraw(px, py, m, n) ==
    /\ \E r \in {process_withdraw(Blank, m, n, <<x, y, accumulatd_sqrt_Q>>,
                                   compute_withdraw_ratio(px, py, m, n))} :
           /\ x' = r.pool[1]
           /\ y' = r.pool[2]
           /\ accumulatd_sqrt_Q' = r.pool[3]
           /\ last' = [Blank EXCEPT !.op = "withdraw", !.err = r.err,
                                    !.argX = px, !.argY = py,
                                    !.preX = x, !.preY = y,
                                    !.preQ = accumulatd_sqrt_Q,
                                    !.m = r.m, !.n = r.n, !.a = r.a,
                                    !.withdraw0 = r.withdraw0,
                                    !.withdraw1 = r.withdraw1]
    /\ UNCHANGED <<w, basis, current_price, mock_time, deposits>>

NextRedeem ==
    \E px \in WithdrawReserves, py \in WithdrawReserves,
       m \in RedeemNotes, n \in RedeemNotes : Withdraw(px, py, m, n)

SpecRedeem == Init /\ [][NextRedeem]_vars

\* arguments for rebalance: the test of line 1295 (110, 200000, 2000), small
\* balanced and unbalanced pools, a zero price and a negative balance
RebalanceEth == {R(0), R(1), R(2), R(110), R(-1)}
RebalanceUsdc == {R(0), R(2), R(4), R(5), R(200000)}
RebalancePrices == {R(0), <<1, 2>>, R(1), R(2), R(2000)}

RebalanceCall(eth_balance, usdc_balance, price) ==
    /\ \E rb \in {rebalance(eth_balance, usdc_balance, price)} :
           last' = [Blank EXCEPT !.op = "rebalance", !.err = rb.err,
                                 !.argX = eth_balance, !.argY = usdc_balance,
                                 !.price = price,
                                 !.newEth = rb.val[1], !.newUsdc = rb.val[2]]
    /\ UNCHANGED <<x, y, accumulatd_sqrt_Q, w, basis, current_price,
                   mock_time, deposits>>

NextRebalance ==
    \E eth \in RebalanceEth, usdc \in RebalanceUsdc, price \in RebalancePrices :
        RebalanceCall(eth, usdc, price)

SpecRebalance == Init /\ [][NextRebalance]_vars

\* arguments for calc_premium: usage totals, a basis of either sign, and
\* durations of 30 days, one day (line 1099) and a maturity in the past
PremiumQs == {R(0), R(1), R(2), R(4)}
PremiumBases == {<<-1, 2>>, R(0), <<1, 2>>}
PremiumDurations == {R(2592000), R(86400), R(-57600)}

CalcPremium(q_old, q_new, bas, duration_in_sec) ==
    /\ \E r \in {calc_premium(q_old, q_new, bas, duration_in_sec)} :
           last' = [Blank EXCEPT !.op = "calc_premium", !.err = r.err,
                                 !.q_old = q_old, !.q_new = q_new,
                                 !.bas = bas, !.duration = duration_in_sec,
                                 !.premium = r.val]
    /\ UNCHANGED <<x, y, accumulatd_sqrt_Q, w, basis, current_price,
                   mock_time, deposits>>

NextPremium ==
    \E q_old \in PremiumQs, q_new \in PremiumQs, bas \in PremiumBases,
       dur \in PremiumDurations : CalcPremium(q_old, q_new, bas, dur)

SpecPremium == Init /\ [][NextPremium]_vars

\* lines 1171-1191 on their own: Q and the note split of a deposit, for pools
\* of any two reserves (the configuration cell sets x and y freely, lines
\* 959-963) and inputs of either sign
NoteReserves == {R(0), R(1), R(2), R(3)}
NoteInputs == {R(-1), R(0), R(1), R(2)}

InitNote ==
    /\ x \in NoteReserves
    /\ y \in NoteReserves
    /\ current_price = R(2)
    /\ w = Sqrt(RMul(x, y))
    /\ accumulatd_sqrt_Q = Zero
    /\ basis = Half
    /\ mock_time = R(1743523200)
    /\ deposits = 0
    /\ last = Blank

ComputeNote(inputAmt0, inputAmt1) ==
    /\ \E dq \in {DepositQ(inputAmt0, inputAmt1)} :
           \E note \in {IF dq.err = "none"
                        THEN NoteSplit(inputAmt0, inputAmt1, dq.val)
                        ELSE <<Zero, Zero>>} :
               last' = [Blank EXCEPT !.op = "note_split", !.err = dq.err,
                                     !.in0 = inputAmt0, !.in1 = inputAmt1,
                                     !.preX = x, !.preY = y,
                                     !.Q = dq.val,
                                     !.noteAmt0 = note[1], !.noteAmt1 = note[2]]
    /\ UNCHANGED <<x, y, accumulatd_sqrt_Q, w, basis, current_price,
                   mock_time, deposits>>

NextNote == \E i0 \in NoteInputs, i1 \in NoteInputs : ComputeNote(i0, i1)

SpecNote == InitNote /\ [][NextNote]_vars

-----------------------------------------------------------------------------
(* The pool under all of its operations *)

\* PoolRebalanced with the usage total cleared by the rebalance
PoolRebalanced_reset(rb) == <<rb.val[1], rb.val[2], Zero>>

\* lines 1361-1362: x and y take the balances rebalance returned; nothing
\* else is assigned
PoolRebalanced(rb) == <<rb.val[1], rb.val[2], accumulatd_sqrt_Q>>

\* lines 1360-1362 on their own: the pool is rebalanced at current_price
Rebalance ==
    /\ \E rb \in {rebalance(x, y, current_price)} :
           \E pool \in {IF rb.err = "none" THEN PoolRebalanced(rb)
                        ELSE <<x, y, accumulatd_sqrt_Q>>} :
               /\ x' = pool[1]
               /\ y' = pool[2]
               /\ accumulatd_sqrt_Q' = pool[3]
               /\ last' = [Blank EXCEPT !.op = "rebalance_pool", !.err = rb.err,
                                        !.argX = x, !.argY = y,
                                        !.price = current_price,
                                        !.preX = x, !.preY = y,
                                        !.preQ = accumulatd_sqrt_Q,
                                        !.newEth = rb.val[1],
                                        !.newUsdc = rb.val[2]]
    /\ UNCHANGED <<w, basis, current_price, mock_time, deposits>>

PoolInputs0 == {R(0), R(2)}
PoolInputs1 == {R(2)}
PoolLockDays == {30}
PoolNotes == {R(0), R(1)}
PoolFractions == {R(0), R(1)}

NextPool ==
    \/ \E i0 \in PoolInputs0, i1 \in PoolInputs1, ld \in PoolLockDays,
          wall \in WallReadings : Deposit(i0, i1, ld, wall)
    \/ \E i0 \in PoolInputs0, i1 \in PoolInputs1, ld \in PoolLockDays,
          wall \in WallReadings : ProcessDeposit(ld, i0, i1, wall)
    \/ Rebalance
    \/ NewCycle
    \/ \E ld \in PoolLockDays, wall \in WallReadings : ComputeMaturity(ld, wall)
    \/ \E m \in PoolNotes, n \in PoolNotes : WithdrawRatio(x, y, m, n)
    \/ \E m \in PoolNotes, n \in PoolNotes : Withdraw(x, y, m, n)
    \/ \E a \in PoolFractions, b \in PoolFractions : CalcDiscount(a, b)
    \/ \E q_new \in PoolNotes :
           CalcPremium(accumulatd_sqrt_Q, RAdd(accumulatd_sqrt_Q, q_new), basis,
                       R(2592000))
    \/ RebalanceCall(x, y, current_price)

SpecPool == Init /\ [][NextPool]_vars

-----------------------------------------------------------------------------
(* Properties of deposit (specification Spec) *)

\* the call recorded in last is a call of dyson_deposit_formula that returned
DepositReturned == last.op = "deposit" /\ last.err = "none"

\* the call recorded in last is a call of dyson_deposit_formula that raised
DepositRaised == last.op = "deposit" /\ last.err # "none"

\* the pool is as it was when the call recorded in last was made
PoolAsBefore ==
    /\ x = last.preX
    /\ y = last.preY
    /\ accumulatd_sqrt_Q = last.preQ

\* Q of the claim, from the reserves before the call and the two inputs:
\* 4 * max(sqrt((x+inputAmt0)*(y+inputAmt1)) - sqrt(x*y), 0)^2
QBefore ==
    LET before == Sqrt(RMul(last.preX, last.preY))
        after == Sqrt(RMul(RAdd(last.preX, last.in0), RAdd(last.preY, last.in1)))
        diff == IF RGt(after, before) THEN RSub(after, before) ELSE Zero
    IN  RMul(R(4), RMul(diff, diff))

C2_Monotonic ==
    /\ RGe(accumulatd_sqrt_Q, Zero)
    /\ (last.op = "none" => accumulatd_sqrt_Q = Zero)
    /\ (last.op = "deposit" /\ RGe(last.in0, Zero) /\ RGe(last.in1, Zero)) =>
           /\ RGe(x, last.preX)
           /\ RGe(y, last.preY)
           /\ RGe(accumulatd_sqrt_Q, last.preQ)

\* a second deposit of the cycle, made on a positive accumulatedSqrtQ, has
\* returned and has raised accumulatedSqrtQ further
C2_Witness ==
    /\ DepositReturned
    /\ deposits = 2
    /\ RGe(last.in0, Zero) /\ RGe(last.in1, Zero)
    /\ RGt(last.preQ, Zero)
    /\ RGt(accumulatd_sqrt_Q, last.preQ)

\* C3: after a deposit call that raised, x, y and accumulatedSqrtQ are what
\* they were before the call
C3_FailedDepositAtomic == DepositRaised => PoolAsBefore

\* a deposit of a positive amount has raised while its premium was computed
\* (the division by w = 0 of line 1090), after Q and the notes were computed
C3_Witness ==
    /\ DepositRaised
    /\ last.err = "ZeroDivisionError"
    /\ w = Zero
    /\ RGt(last.in0, Zero)

\* C4: deposit(0, 0) succeeds, yields Q = 0 and noteAmt0 = noteAmt1 = 0, and
\* leaves x, y and accumulatedSqrtQ unchanged (stated for the pools with
\* w # 0 and the positive lockDays, where nothing else can fail)
C4_ZeroDeposit ==
    (/\ last.op = "deposit"
     /\ last.in0 = Zero /\ last.in1 = Zero
     /\ last.lockDays >= 1
     /\ w # Zero) =>
        /\ last.err = "none"
        /\ last.Q = Zero
        /\ last.noteAmt0 = Zero /\ last.noteAmt1 = Zero
        /\ PoolAsBefore

\* C8: a deposit with lockDays <= 0 fails and leaves the pool unchanged
C8_NonPositiveLockDays ==
    (last.op = "deposit" /\ last.lockDays <= 0) =>
        /\ last.err # "none"
        /\ PoolAsBefore

-----------------------------------------------------------------------------
(* Properties of calc_discount (specification SpecDiscount) *)

\* C5: discount(a, b) with b = a and 1 + a > 0 returns 1/(1+a) and does not
\* end in an error
C5_DiscountAtEqual ==
    (/\ last.op = "calc_discount"
     /\ last.argX = last.argY
     /\ RGt(RAdd(One, last.argX), Zero)) =>
        /\ last.err = "none"
        /\ last.discount = RDiv(One, RAdd(One, last.argX))

-----------------------------------------------------------------------------
(* Properties of compute_due_time_and_duration (specification SpecMaturity) *)

\* the call recorded in last is a maturity computation with positive lockDays
MaturityCalled ==
    last.op = "compute_due_time_and_duration" /\ last.lockDays >= 1

\* ceil(t / 86400) of an instant t
CeilDay(t) == -((-t[1]) \div (t[2] * 86400))

\* C6: for every instant t and positive lockDays the result is
\* dueDayIndex = ceil(t / 86400) + lockDays and
\* durationSeconds = dueDayIndex * 86400 - t; 2025-04-01T16:00:00Z with
\* lockDays = 1 gives (20181, 115200), 2025-04-01T00:00:00Z gives (20180, 86400)
C6_Maturity ==
    MaturityCalled =>
        /\ last.due = CeilDay(last.now) + last.lockDays
        /\ last.duration = RSub(R(last.due * 86400), last.now)
        /\ (last.now = R(1743523200) /\ last.lockDays = 1) =>
               (last.due = 20181 /\ last.duration = R(115200))
        /\ (last.now = R(1743465600) /\ last.lockDays = 1) =>
               (last.due = 20180 /\ last.duration = R(86400))

\* C7: for every instant, fractional seconds included, and positive lockDays,
\* lockDays * 86400 <= durationSeconds < (lockDays + 1) * 86400
C7_DurationBounds ==
    MaturityCalled =>
        /\ RGe(last.duration, R(last.lockDays * 86400))
        /\ RLt(last.duration, R((last.lockDays + 1) * 86400))

-----------------------------------------------------------------------------
(* Properties of compute_withdraw_ratio (specification SpecWithdraw) *)

\* the call recorded in last is a call of compute_withdraw_ratio
WithdrawCalled == last.op = "compute_withdraw_ratio"

\* 0.5 + x/(2m) - y/(2n) of the recorded arguments, for non-zero m and n
RawRatio ==
    RSub(RAdd(Half, RDiv(last.argX, RMul(R(2), last.m))),
         RDiv(last.argY, RMul(R(2), last.n)))

\* C9: for non-zero m and n, withdrawRatio returns
\* max(0, min(1, 0.5 + x/(2m) - y/(2n))), a value in [0, 1]
C9_RatioClamped ==
    (WithdrawCalled /\ last.m # Zero /\ last.n # Zero) =>
        /\ last.err = "none"
        /\ RGe(last.a, Zero) /\ RLe(last.a, One)
        /\ last.a = (IF RLt(RawRatio, Zero) THEN Zero
                     ELSE IF RGt(RawRatio, One) THEN One
                     ELSE RawRatio)

\* a call whose unclamped ratio is above 1 has returned 1
C9_Witness ==
    /\ WithdrawCalled /\ last.m # Zero /\ last.n # Zero
    /\ RGt(RawRatio, One)
    /\ last.a = One

\* C10: withdrawRatio with m = 0 or n = 0 raises the error of line 1244 and
\* returns no ratio, whatever x and y are
C10_ZeroNoteRaises ==
    (WithdrawCalled /\ (last.m = Zero \/ last.n = Zero)) =>
        /\ last.err = "ValueError"
        /\ last.a = Zero

\* a call with m # 0, n = 0 and non-zero reserves has raised
C10_Witness ==
    /\ WithdrawCalled
    /\ last.m # Zero /\ last.n = Zero
    /\ last.argX # Zero /\ last.argY # Zero
    /\ last.err = "ValueError"

-----------------------------------------------------------------------------
(* Properties of the redemption amounts (specification SpecRedeem) *)

\* C11: for positive m and n and any reserves, withdraw0 = m*a and
\* withdraw1 = n*(1-a) satisfy 0 <= withdraw0 <= m and 0 <= withdraw1 <= n
C11_RedemptionWithinNote ==
    (last.op = "withdraw" /\ RGt(last.m, Zero) /\ RGt(last.n, Zero)) =>
        /\ last.err = "none"
        /\ last.withdraw0 = RMul(last.m, last.a)
        /\ last.withdraw1 = RMul(last.n, RSub(One, last.a))
        /\ RGe(last.withdraw0, Zero) /\ RLe(last.withdraw0, last.m)
        /\ RGe(last.withdraw1, Zero) /\ RLe(last.withdraw1, last.n)

\* a note has been redeemed at a ratio strictly between 0 and 1: both sides
\* are paid, each less than its face amount
C11_Witness ==
    /\ last.op = "withdraw" /\ last.err = "none"
    /\ RGt(last.a, Zero) /\ RLt(last.a, One)
    /\ RGt(last.withdraw0, Zero) /\ RLt(last.withdraw0, last.m)
    /\ RGt(last.withdraw1, Zero) /\ RLt(last.withdraw1, last.n)

-----------------------------------------------------------------------------
(* Properties of rebalance (specification SpecRebalance) *)

\* the call recorded in last is a call of rebalance
RebalanceCalled == last.op = "rebalance"

\* C12: for non-negative reserves and price > 0, rebalance returns (x', y')
\* with x'*price = y' and x'*price + y' = x*price + y; the test of line 1295,
\* (110, 200000, 2000), gives (105, 210000)
C12_RebalanceConserves ==
    (/\ RebalanceCalled
     /\ RGe(last.argX, Zero) /\ RGe(last.argY, Zero)
     /\ RGt(last.price, Zero)) =>
        /\ last.err = "none"
        /\ RMul(last.newEth, last.price) = last.newUsdc
        /\ RAdd(RMul(last.newEth, last.price), last.newUsdc)
               = RAdd(RMul(last.argX, last.price), last.argY)
        /\ (last.argX = R(110) /\ last.argY = R(200000) /\ last.price = R(2000)) =>
               (last.newEth = R(105) /\ last.newUsdc = R(210000))

\* an unbalanced pool with too much of token0, at a price other than 1, has
\* been rebalanced: token0 was sold
C12_Witness ==
    /\ RebalanceCalled /\ last.err = "none"
    /\ RGt(last.argY, Zero)
    /\ RGt(last.price, One)
    /\ RLt(last.newEth, last.argX)
    /\ RGt(last.newUsdc, last.argY)

\* C13: when the pool is already balanced (x*price = y), rebalance returns
\* exactly (x, y)
C13_BalancedUnchanged ==
    (RebalanceCalled /\ RMul(last.argX, last.price) = last.argY) =>
        /\ last.err = "none"
        /\ last.newEth = last.argX
        /\ last.newUsdc = last.argY

\* a balanced pool with different amounts on the two sides has been rebalanced
C13_Witness ==
    /\ RebalanceCalled /\ last.err = "none"
    /\ RMul(last.argX, last.price) = last.argY
    /\ RGt(last.argX, Zero)
    /\ last.argX # last.argY

-----------------------------------------------------------------------------
(* Further properties of calc_discount (specification SpecDiscount) *)

\* the call recorded in last is calc_discount(a, b) with a # b, 1 + a > 0 and
\* 1 + b > 0
DiscountCalledOnInterval ==
    /\ last.op = "calc_discount"
    /\ last.argX # last.argY
    /\ RGt(RAdd(One, last.argX), Zero)
    /\ RGt(RAdd(One, last.argY), Zero)

-----------------------------------------------------------------------------
(* Properties of calc_premium (specification SpecPremium) *)

\* C18: a premium computation with a negative basis ends in an error and
\* returns no premium rate (stated for the calls where nothing else is wrong:
\* w # 0, q_old < q_new and a lock of 30 days)
C18_NegativeBasisRejected ==
    (/\ last.op = "calc_premium"
     /\ RLt(last.bas, Zero)
     /\ w # Zero
     /\ RLt(last.q_old, last.q_new)
     /\ last.duration = R(2592000)) =>
        last.err # "none"

-----------------------------------------------------------------------------
(* Properties of the note split (specification SpecNote) *)

\* the call recorded in last computed Q and the notes from non-negative
\* reserves and non-negative inputs
NoteComputed ==
    /\ last.op = "note_split"
    /\ RGe(last.preX, Zero) /\ RGe(last.preY, Zero)
    /\ RGe(last.in0, Zero) /\ RGe(last.in1, Zero)

\* C19: for non-negative reserves and inputs noteAmt0 * noteAmt1 = Q; when
\* inputAmt0*y > inputAmt1*x, noteAmt0 = inputAmt0 + inputAmt1*x/y and
\* noteAmt1 = Q/noteAmt0, otherwise noteAmt1 = inputAmt1 + inputAmt0*y/x (the
\* ratio term 0 when x = 0) and noteAmt0 = Q/noteAmt1; a note amount is 0 only
\* when Q is 0
C19_NoteProduct ==
    NoteComputed =>
        /\ last.err = "none"
        /\ RMul(last.noteAmt0, last.noteAmt1) = last.Q
        /\ IF RGt(RMul(last.in0, last.preY), RMul(last.in1, last.preX))
           THEN /\ RGt(last.preY, Zero)
                /\ last.noteAmt0 =
                       RAdd(last.in0, RDiv(RMul(last.in1, last.preX), last.preY))
                /\ last.noteAmt0 # Zero
                /\ last.noteAmt1 = RDiv(last.Q, last.noteAmt0)
           ELSE /\ last.noteAmt1 =
                       RAdd(last.in1, IF RGt(last.preX, Zero)
                                      THEN RDiv(RMul(last.in0, last.preY), last.preX)
                                      ELSE Zero)
                /\ last.noteAmt1 # Zero => last.noteAmt0 = RDiv(last.Q, last.noteAmt1)
        /\ (last.noteAmt0 = Zero \/ last.noteAmt1 = Zero) => last.Q = Zero

\* a two-sided input with more of token0 than the pool's ratio has been split
\* into two positive notes
C19_Witness ==
    /\ NoteComputed /\ last.err = "none"
    /\ RGt(RMul(last.in0, last.preY), RMul(last.in1, last.preX))
    /\ RGt(last.in1, Zero) /\ RGt(last.preX, Zero)
    /\ RGt(last.Q, Zero)
    /\ RGt(last.noteAmt0, last.in0)
    /\ RGt(last.noteAmt1, Zero)

-----------------------------------------------------------------------------
(* Properties of the pool's operations (specification SpecPool) *)

\* C14: a rebalance of the pool changes nothing but the two reserves, and
\* those only to the balances rebalance returned: the usage total
\* accumulatd_sqrt_Q and the usage scale w are what they were before it; the
\* rebalance inside process_deposit leaves the usage total at the q_new of
\* the deposit that preceded it
C14_RebalanceOnlyReserves ==
    [][/\ last'.op = "rebalance_pool" =>
            /\ accumulatd_sqrt_Q' = accumulatd_sqrt_Q
            /\ w' = w
            /\ last'.err = "none" => (x' = last'.newEth /\ y' = last'.newUsdc)
       /\ (last'.op = "process_deposit" /\ last'.err = "none") =>
            /\ accumulatd_sqrt_Q' = last'.q_new
            /\ w' = w]_vars

\* an unbalanced pool with a positive usage total has been rebalanced: both
\* reserves moved
C14_Witness ==
    /\ last.op = "rebalance_pool" /\ last.err = "none"
    /\ x # last.preX /\ y # last.preY
    /\ RGt(last.preQ, Zero)
    /\ accumulatd_sqrt_Q = last.preQ

\* the premium lines 1085-1095 give for the deposit recorded in last when the
\* usage fractions q_old/w and q_new/w are taken against the given scale
PremiumAtScale(scale) ==
    RMul(RMul(RMul(<<2, 5>>, basis),
              Sqrt(RDiv(last.duration, R(SecondsInYear)))),
         calc_discount(RDiv(last.q_old, scale), RDiv(last.q_new, scale)).val)

\* C15: no deposit changes w, and the premium of every successful deposit is
\* computed against that same w (the one set when the parameters were
\* initialised, which is not 0 when a deposit succeeds), whatever the
\* reserves have become since
C15_ScaleFixed ==
    /\ [][last'.op \in {"deposit", "process_deposit"} => w' = w]_vars
    /\ []((last.op \in {"deposit", "process_deposit"} /\ last.err = "none") =>
              (w # Zero /\ last.premium = PremiumAtScale(w)))

\* a second deposit of the cycle has succeeded with a positive premium
\* although sqrt(x * y) of the reserves it found is no longer w
C15_Witness ==
    /\ DepositReturned
    /\ deposits = 2
    /\ RGt(last.q_old, Zero)
    /\ w # Sqrt(RMul(last.preX, last.preY))
    /\ RGt(last.premium, Zero)

\* the operations that only compute: maturity, withdraw ratio, redemption,
\* discount, premium, and rebalance called for its result
ComputingOps ==
    {"compute_due_time_and_duration", "compute_withdraw_ratio", "withdraw",
     "calc_discount", "calc_premium", "rebalance"}

\* the operations that deposit
DepositOps == {"deposit", "process_deposit"}

\* C20: a step of a computing operation leaves x, y and accumulatd_sqrt_Q as
\* they were; the reserves change only in a deposit or a rebalance of the
\* pool; accumulatd_sqrt_Q grows only in a deposit, and outside deposits it
\* changes only by the caller's reset to 0 at the start of a cycle
C20_PoolFrame ==
    [][/\ last'.op \in ComputingOps =>
            <<x, y, accumulatd_sqrt_Q>>' = <<x, y, accumulatd_sqrt_Q>>
       /\ <<x, y>>' # <<x, y>> => last'.op \in DepositOps \cup {"rebalance_pool"}
       /\ RGt(accumulatd_sqrt_Q', accumulatd_sqrt_Q) => last'.op \in DepositOps
       /\ accumulatd_sqrt_Q' # accumulatd_sqrt_Q =>
            \/ last'.op \in DepositOps
            \/ last'.op = "new_cycle" /\ accumulatd_sqrt_Q' = Zero]_vars

\* a redemption has paid out a positive amount of both tokens from a pool
\* with a positive usage total, and the pool is as it was
C20_Witness ==
    /\ last.op = "withdraw" /\ last.err = "none"
    /\ RGt(last.withdraw0, Zero) /\ RGt(last.withdraw1, Zero)
    /\ RGt(accumulatd_sqrt_Q, Zero)
    /\ <<x, y, accumulatd_sqrt_Q>> = <<last.preX, last.preY, last.preQ>>

-----------------------------------------------------------------------------
(* Properties of deposit in every configuration (specification Spec) *)

\* C29: in every configuration with non-negative reserves, w = 0 included, a
\* deposit of non-negative amounts with at least one of them positive returns:
\* its usage fractions and its premium are computed without an error
C29_DepositInEveryConfiguration ==
    (/\ last.op = "deposit"
     /\ RGe(last.preX, Zero) /\ RGe(last.preY, Zero)
     /\ RGe(last.in0, Zero) /\ RGe(last.in1, Zero)
     /\ RGt(RAdd(last.in0, last.in1), Zero)
     /\ RGe(w, Zero)) =>
        last.err = "none"

\* the square root of r is exact on the grid Sqrt rounds to
ExactRoot(r) == RMul(Sqrt(r), Sqrt(r)) = r

-----------------------------------------------------------------------------
(* Properties of the cycle reset (specification Spec) *)

\* C16: when a new cycle starts, accumulatd_sqrt_Q is 0 and w is
\* daily_sell_target * sqrt(x * y) of the reserves the pool holds at that
\* moment, for one of the daily sell targets
C16_CycleRecomputesScale ==
    last.op = "new_cycle" =>
        /\ accumulatd_sqrt_Q = Zero
        /\ \E daily_sell_target \in SellTargets :
               w = RMul(daily_sell_target, Sqrt(RMul(x, y)))

-----------------------------------------------------------------------------
(* Properties of the usage interval (specification Spec) and of the notes
   (specification SpecNote) *)

\* C22: for a deposit with non-negative inputs into a pool with w > 0 the
\* usage read at the call gives a fraction a = q_old/w >= 0, and when the
\* deposit returned q_old is that usage and a <= b = q_new/w
C22_UsageInterval ==
    (/\ last.op \in DepositOps
     /\ RGe(last.in0, Zero) /\ RGe(last.in1, Zero)
     /\ RGt(w, Zero)) =>
        /\ RGe(RDiv(last.preQ, w), Zero)
        /\ last.err = "none" =>
              /\ last.q_old = last.preQ
              /\ RLe(Zero, RDiv(last.q_old, w))
              /\ RLe(RDiv(last.q_old, w), RDiv(last.q_new, w))

\* a second deposit has returned with an interval 0 < a < b
C22_Witness ==
    /\ last.op \in DepositOps /\ last.err = "none"
    /\ RGe(last.in0, Zero) /\ RGe(last.in1, Zero)
    /\ RGt(w, Zero)
    /\ RGt(RDiv(last.q_old, w), Zero)
    /\ RGt(RDiv(last.q_new, w), RDiv(last.q_old, w))

\* C23: a note computed from non-negative reserves and non-negative inputs
\* has noteAmt0 >= 0 and noteAmt1 >= 0, and its Q is >= 0: the delta of the
\* square roots is not negative there, and 4 times its square is Q
C23_NotesNonNegative ==
    NoteComputed =>
        /\ last.err = "none"
        /\ RGe(last.Q, Zero)
        /\ RGe(last.noteAmt0, Zero)
        /\ RGe(last.noteAmt1, Zero)
        /\ RGe(Sqrt(RMul(RAdd(last.preX, last.in0), RAdd(last.preY, last.in1))),
               Sqrt(RMul(last.preX, last.preY)))

\* a one-sided input into a pool with both reserves positive gave Q > 0, a
\* positive note on the deposited side and a positive note on the other
C23_Witness ==
    /\ NoteComputed /\ last.err = "none"
    /\ RGt(last.preX, Zero) /\ RGt(last.preY, Zero)
    /\ last.in0 = Zero /\ RGt(last.in1, Zero)
    /\ RGt(last.Q, Zero)
    /\ RGt(last.noteAmt0, Zero) /\ RGt(last.noteAmt1, Zero)

-----------------------------------------------------------------------------
(* Properties of process_deposit (specification Spec) *)

\* C25: after a process_deposit whose deposit went through, the pool is
\* balanced at current_price (x * current_price = y) and its value
\* x * current_price + y is the value before the call plus
\* inputAmt0 * current_price + inputAmt1; a process_deposit whose deposit
\* raised has raised and left the pool as it was.  The pool (100, 200000)
\* with (0, 2000) added rebalances at 2000 to (100.5, 201000)
C25_ProcessDepositBalanced ==
    /\ last.op = "process_deposit" =>
          \/ last.err # "none" /\ PoolAsBefore
          \/ /\ RMul(x, current_price) = y
             /\ RAdd(RMul(x, current_price), y) =
                    RAdd(RAdd(RMul(last.preX, current_price), last.preY),
                         RAdd(RMul(last.in0, current_price), last.in1))
    /\ rebalance(RAdd(R(100), R(0)), RAdd(R(200000), R(2000)), R(2000)) =
           Ok(<<<<201, 2>>, R(201000)>>)

\* a process_deposit of one token only has returned and has left a balanced
\* pool with both reserves larger than before
C25_Witness ==
    /\ last.op = "process_deposit" /\ last.err = "none"
    /\ last.in0 = Zero /\ RGt(last.in1, Zero)
    /\ RGt(x, last.preX) /\ RGt(y, last.preY)
    /\ RMul(x, current_price) = y

-----------------------------------------------------------------------------
(* Properties of the usage total over a cycle (specification SpecPool) *)

\* C24: usage intervals are contiguous.  A deposit that returns reads as
\* q_old the usage total it finds and leaves its q_new as the total; a
\* deposit that raises, a rebalance and every computing operation leave the
\* total as it is; only the start of a new cycle puts it back to 0.  So the
\* q_old of each deposit is the q_new of the deposit before it in the cycle,
\* and 0 for the first
C24_Contiguous ==
    [][/\ (last'.op \in DepositOps /\ last'.err = "none") =>
            /\ last'.q_old = accumulatd_sqrt_Q
            /\ accumulatd_sqrt_Q' = last'.q_new
       /\ (last'.op \in DepositOps /\ last'.err # "none") =>
            accumulatd_sqrt_Q' = accumulatd_sqrt_Q
       /\ last'.op \in ComputingOps \cup {"rebalance_pool"} =>
            accumulatd_sqrt_Q' = accumulatd_sqrt_Q
       /\ last'.op = "new_cycle" => accumulatd_sqrt_Q' = Zero
       /\ last.op = "none" => accumulatd_sqrt_Q = Zero]_vars

\* the second deposit of a cycle has returned: it read a positive q_old, the
\* total the first one left, and left its own larger q_new as the total
C24_Witness ==
    /\ last.op \in DepositOps /\ last.err = "none"
    /\ deposits = 2
    /\ RGt(last.q_old, Zero)
    /\ last.q_old = last.preQ
    /\ RGt(last.q_new, last.q_old)
    /\ accumulatd_sqrt_Q = last.q_new

-----------------------------------------------------------------------------
(* Further properties of rebalance (specification SpecRebalance) *)

-----------------------------------------------------------------------------
(* Further properties of the redemption (specification SpecRedeem) *)

\* C28: a note with positive amounts m and n redeemed against non-negative
\* reserves is paid no more than the pool holds: withdraw0 <= x and
\* withdraw1 <= y
C28_RedemptionWithinReserves ==
    (/\ last.op = "withdraw"
     /\ RGe(last.argX, Zero) /\ RGe(last.argY, Zero)
     /\ RGt(last.m, Zero) /\ RGt(last.n, Zero)) =>
        /\ last.err = "none"
        /\ RLe(last.withdraw0, last.argX)
        /\ RLe(last.withdraw1, last.argY)

-----------------------------------------------------------------------------
(* Properties of the clock and of the two versions of
   compute_due_time_and_duration (specification SpecMaturity) *)

\* C21: the result of a maturity computation is determined by the state it
\* started from and its argument: whatever the wall clock reads at the moment
\* of the call, the due day and the duration are the ones recorded (the call
\* changes no variable but last, so the state it started from is still there)
C21_Deterministic ==
    MaturityCalled =>
        \A wall \in MaturityInstants :
            LET dd == compute_due_time_and_duration(last.lockDays, wall)
            IN  dd.due = last.due /\ dd.duration = last.duration

\* C26: the first notebook's compute_due_time_and_duration returns, for the
\* instant and the lockDays of every call of the second one, the due day and
\* the duration that call returned
C26_VersionsAgree ==
    last.op = "compute_due_time_and_duration" =>
        LET first == compute_due_time_and_duration_first_version(last.lockDays,
                                                                  last.now)
        IN  first.due = last.due /\ first.duration = last.duration

=============================================================================
